---- MODULE Spec2Model ----
(***************************************************************************)
(* A model of the stocknear_clone Django project: the market-data proxy    *)
(* views (stocks/views.py), the integration registry with its keyring      *)
(* backed form (integrations/), and the RSS ingestion command              *)
(* (news/management/commands/fetch_news.py).                               *)
(*                                                                         *)
(* Python strings that the code inspects character by character (symbols,  *)
(* queries, links, titles) are sequences of one-character strings.         *)
(***************************************************************************)
EXTENDS Integers, Sequences, FiniteSets, TLC

VARIABLES
    FMP_API_KEY,    \* stocks/views.py module constant, read from the environment
    request,        \* the last request a stocks view handled, with the upstream answer
    rendered,       \* what that stocks view returned
    integrations,   \* rows of the Integration table
    keyring,        \* the system credential store: (service, username) -> password
    response,       \* what the last integrations request did and returned
    feeds,          \* current contents of the three RSS feeds
    news,           \* rows of the NewsItem table
    job             \* how the last fetch_news run ended

vars == <<FMP_API_KEY, request, rendered, integrations, keyring, response,
          feeds, news, job>>

stockVars == <<request, rendered>>
integrationVars == <<integrations, keyring, response>>
newsVars == <<feeds, news, job>>

None == "None"

Min(a, b) == IF a < b THEN a ELSE b

(***************************************************************************)
(* str helpers                                                             *)
(***************************************************************************)
LowerLetters == <<"a", "b", "c", "d", "e", "f", "g", "h", "i", "j", "k", "l", "m",
                  "n", "o", "p", "q", "r", "s", "t", "u", "v", "w", "x", "y", "z">>
UpperLetters == <<"A", "B", "C", "D", "E", "F", "G", "H", "I", "J", "K", "L", "M",
                  "N", "O", "P", "Q", "R", "S", "T", "U", "V", "W", "X", "Y", "Z">>

UpperChar(c) ==
    IF \E i \in DOMAIN LowerLetters : LowerLetters[i] = c
    THEN UpperLetters[CHOOSE i \in DOMAIN LowerLetters : LowerLetters[i] = c]
    ELSE c

LowerChar(c) ==
    IF \E i \in DOMAIN UpperLetters : UpperLetters[i] = c
    THEN LowerLetters[CHOOSE i \in DOMAIN UpperLetters : UpperLetters[i] = c]
    ELSE c

\* str.upper()
Upper(s) == [i \in DOMAIN s |-> UpperChar(s[i])]

\* the `in` operator on two strings: sub occurs in s as a contiguous run
Contains(s, sub) ==
    \E i \in 0..(Len(s) - Len(sub)) :
        \A j \in 1..Len(sub) : s[i + j] = sub[j]

\* a list slice data[:n]
SliceOneMore(data, n) == SubSeq(data, 1, Min(Len(data), n + 1))

Slice(data, n) == SubSeq(data, 1, Min(Len(data), n))

(***************************************************************************)
(* stocks/views.py                                                         *)
(***************************************************************************)
\* the "top 100" of stock_list
TOP_N == 100

GainersUrl(key) == <<"/api/v3/stock_market/gainers?apikey=">> \o key

QuoteUrl(symbol, key) == <<"/api/v3/quote/">> \o symbol \o <<"?apikey=">> \o key

\* item.get("symbol", "")
SymbolOf(item) == IF "symbol" \in DOMAIN item THEN item.symbol ELSE <<>>

\* requests.get + raise_for_status + resp.json(): whether it returned a value
Fetched(http) == http.kind = "json"

IsList(body) == body.type = "list"

\* truthiness of a parsed JSON document
Truthy(body) == body.items # <<>>

stock_list(http) ==
    IF FMP_API_KEY = <<>>
    THEN [view |-> "stock_list", status |-> "200", url |-> <<>>,
          stocks |-> <<>>, query |-> <<>>]
    ELSE LET data == IF Fetched(http) THEN http.body
                     ELSE [type |-> "list", items |-> <<>>]
         IN  IF IsList(data)
             THEN [view |-> "stock_list", status |-> "200",
                   url |-> GainersUrl(FMP_API_KEY),
                   stocks |-> Slice(data.items, TOP_N), query |-> <<>>]
             ELSE \* a JSON object cannot be sliced: TypeError outside the try
                  [view |-> "stock_list", status |-> "500",
                   url |-> GainersUrl(FMP_API_KEY),
                   stocks |-> <<>>, query |-> <<>>]

\* the filter of stock_search: q in item.get("symbol", "")
Match(q, item) == Contains(SymbolOf(item), q)

stock_search(rawq, http) ==
    LET q == Upper(rawq)
    IN  IF q # <<>> /\ FMP_API_KEY # <<>>
        THEN [view |-> "stock_search", status |-> "200",
              url |-> GainersUrl(FMP_API_KEY),
              stocks |-> IF Fetched(http) /\ IsList(http.body)
                         THEN SelectSeq(http.body.items, LAMBDA item : Match(q, item))
                         ELSE <<>>,
              query |-> q]
        ELSE [view |-> "stock_search", status |-> "200", url |-> <<>>,
              stocks |-> <<>>, query |-> q]

\* symbol.upper() left out: the symbol as it came in
NormalizeSymbolVerbatim(symbol) == symbol

NormalizeSymbol(symbol) == Upper(symbol)

stock_detail(symbol0, http) ==
    LET symbol == NormalizeSymbol(symbol0)
    IN  IF FMP_API_KEY = <<>>
        THEN [view |-> "stock_detail", status |-> "Http404", url |-> <<>>,
              stocks |-> <<>>, query |-> <<>>]
        ELSE IF Fetched(http) /\ Truthy(http.body) /\ IsList(http.body)
             THEN [view |-> "stock_detail", status |-> "200",
                   url |-> QuoteUrl(symbol, FMP_API_KEY),
                   stocks |-> <<http.body.items[1]>>, query |-> <<>>]
             ELSE \* request error, bad status, bad JSON, empty data, or data[0]
                  \* of a JSON object (KeyError): all end in Http404
                  [view |-> "stock_detail", status |-> "Http404",
                   url |-> QuoteUrl(symbol, FMP_API_KEY),
                   stocks |-> <<>>, query |-> <<>>]

(***************************************************************************)
(* integrations/: models.py, forms.py, views.py                           *)
(***************************************************************************)
PROVIDER_CHOICES == {"webull", "robinhood", "fidelity"}

\* the symbol integration_verify asks a quote for
VERIFY_SYMBOL == <<"A", "A", "P", "L">>

\* Integration(user=request.user): an unsaved instance, pk not yet assigned (0)
NewIntegration(user) ==
    [pk |-> 0, user |-> user, provider |-> "", username |-> "",
     key_name |-> "", verified |-> FALSE]

\* Integration.objects.filter(user=user)
OwnedBy(user) == {r \in integrations : r.user = user}

\* the rows with this pk, whoever owns them
QueryAnyOwner(pk, user) == {r \in integrations : r.pk = pk}

\* Integration.objects.filter(pk=pk, user=request.user), the queryset of
\* get_object_or_404
Query(pk, user) == {r \in integrations : r.pk = pk /\ r.user = user}

\* get_object_or_404 does not raise Http404
Found(pk, user) == Query(pk, user) # {}

\* the row get_object_or_404 returns, when Found
Lookup(pk, user) == CHOOSE r \in Query(pk, user) : TRUE

\* keyring.get_password(service, username)
get_password(service, username) ==
    IF <<service, username>> \in DOMAIN keyring
    THEN keyring[<<service, username>>]
    ELSE None

\* keyring.set_password(service, username, password)
set_password(service, username, password) ==
    [k \in DOMAIN keyring \cup {<<service, username>>} |->
        IF k = <<service, username>> THEN password ELSE keyring[k]]

\* the key_name of save() without the separator and username
KeyNameProviderOnly(provider, username) == provider

\* f"{inst.provider}:{inst.username}"
KeyName(provider, username) == provider \o ":" \o username

\* ModelForm validation of the declared fields: a provider among the choices,
\* a non-empty username and a non-empty password.  unique_together is not
\* validated by the form, `user` not being one of its fields.
is_valid(data) ==
    /\ data.provider \in PROVIDER_CHOICES
    /\ data.username # ""
    /\ data.password # ""

\* the database accepts any row
UniqueViolationNever(inst) == FALSE

\* class Meta: unique_together = ('user', 'provider'), enforced by the database
UniqueViolation(inst) ==
    \E r \in integrations :
        r.pk # inst.pk /\ r.user = inst.user /\ r.provider = inst.provider

\* Model.save(): INSERT when the instance has no pk, UPDATE otherwise
Persisted(inst) ==
    IF inst.pk = 0 THEN [inst EXCEPT !.pk = Cardinality(integrations) + 1] ELSE inst

ModelSave(inst) ==
    {r \in integrations : r.pk # inst.pk} \cup {Persisted(inst)}

\* what a request did and returned; the fields a view does not set stay empty
Response(view, user, pk, status) ==
    [view |-> view, user |-> user, pk |-> pk, status |-> status,
     initial |-> None, kr_get |-> {}, kr_set |-> {}, saved |-> {},
     items |-> {}, upstream |-> {}]

Outcome(db, kr, resp) == [db |-> db, kr |-> kr, resp |-> resp]

\* IntegrationForm.save with the two writes in the other order
IntegrationForm_save_StoreFirst(inst0, data, commit, setOk, resp) ==
    LET inst == [inst0 EXCEPT !.provider = data.provider,
                              !.username = data.username,
                              !.key_name = KeyName(data.provider, data.username)]
        key == <<inst.provider, inst.username>>
    IN  IF ~commit
        THEN Outcome(integrations, keyring, [resp EXCEPT !.status = "unsaved"])
        ELSE IF ~setOk
        THEN Outcome(integrations, keyring,
                     [resp EXCEPT !.status = "KeyringError", !.kr_set = {key}])
        ELSE IF UniqueViolation(inst)
        THEN Outcome(integrations,
                     set_password(inst.provider, inst.username, data.password),
                     [resp EXCEPT !.status = "IntegrityError",
                                  !.saved = {inst}, !.kr_set = {key}])
        ELSE Outcome(ModelSave(inst),
                     set_password(inst.provider, inst.username, data.password),
                     [resp EXCEPT !.status = "redirect",
                                  !.saved = {Persisted(inst)}, !.kr_set = {key}])

\* IntegrationForm.save(commit) on a valid form bound to inst; setOk: whether
\* keyring.set_password returns (it raises when the store is unreachable)
IntegrationForm_save(inst0, data, commit, setOk, resp) ==
    LET inst == [inst0 EXCEPT !.provider = data.provider,
                              !.username = data.username,
                              !.key_name = KeyName(data.provider, data.username)]
        key == <<inst.provider, inst.username>>
    IN  IF ~commit
        THEN Outcome(integrations, keyring, [resp EXCEPT !.status = "unsaved"])
        ELSE IF UniqueViolation(inst)
        THEN Outcome(integrations, keyring,
                     [resp EXCEPT !.status = "IntegrityError", !.saved = {inst}])
        ELSE IF ~setOk
        THEN Outcome(ModelSave(inst), keyring,
                     [resp EXCEPT !.status = "KeyringError",
                                  !.saved = {Persisted(inst)}, !.kr_set = {key}])
        ELSE Outcome(ModelSave(inst),
                     set_password(inst.provider, inst.username, data.password),
                     [resp EXCEPT !.status = "redirect",
                                  !.saved = {Persisted(inst)}, !.kr_set = {key}])

\* integration_edit behind @login_required; getOk: whether keyring.get_password
\* returns
integration_edit(user, pk, method, data, getOk, setOk) ==
    LET resp0 == Response("edit", user, pk, "")
    IN  IF pk # 0 /\ ~Found(pk, user)
        THEN Outcome(integrations, keyring, [resp0 EXCEPT !.status = "Http404"])
        ELSE
        LET inst == IF pk # 0 THEN Lookup(pk, user) ELSE NewIntegration(user)
            key == <<inst.provider, inst.username>>
            \* IntegrationForm.__init__
            reads == inst.pk # 0
            resp1 == IF reads
                     THEN [resp0 EXCEPT !.kr_get = {key},
                              !.initial = get_password(inst.provider, inst.username)]
                     ELSE resp0
        IN  IF reads /\ ~getOk
            THEN Outcome(integrations, keyring,
                         [resp0 EXCEPT !.status = "KeyringError", !.kr_get = {key}])
            ELSE IF method = "POST" /\ is_valid(data)
            THEN IntegrationForm_save(inst, data, TRUE, setOk, resp1)
            ELSE Outcome(integrations, keyring, [resp1 EXCEPT !.status = "form"])

\* integration_verify that only ever sets the flag
integration_verify_Sticky(user, pk, http) ==
    LET resp0 == Response("verify", user, pk, "")
    IN  IF ~Found(pk, user)
        THEN Outcome(integrations, keyring, [resp0 EXCEPT !.status = "Http404"])
        ELSE
        LET quote == stock_detail(VERIFY_SYMBOL, http)
            old == Lookup(pk, user)
            inst == [old EXCEPT !.verified = old.verified \/ (quote.status = "200")]
        IN  Outcome(ModelSave(inst), keyring,
                    [resp0 EXCEPT !.status = "redirect", !.saved = {inst},
                                  !.upstream = {http}])

\* integration_verify behind @login_required; http: what the quote request met.
\* Http404 and every other exception of stock_detail are caught.
integration_verify(user, pk, http) ==
    LET resp0 == Response("verify", user, pk, "")
    IN  IF ~Found(pk, user)
        THEN Outcome(integrations, keyring, [resp0 EXCEPT !.status = "Http404"])
        ELSE
        LET quote == stock_detail(VERIFY_SYMBOL, http)
            inst == [Lookup(pk, user) EXCEPT !.verified = (quote.status = "200")]
        IN  Outcome(ModelSave(inst), keyring,
                    [resp0 EXCEPT !.status = "redirect", !.saved = {inst},
                                  !.upstream = {http}])

\* integration_list behind @login_required
integration_list(user) ==
    Outcome(integrations, keyring,
            [Response("list", user, 0, "200") EXCEPT !.items = OwnedBy(user)])

(***************************************************************************)
(* news/management/commands/fetch_news.py and news/models.py               *)
(***************************************************************************)
RSS_SOURCES == <<"reutersagency", "cnbc", "seekingalpha">>

Whitespace == {" ", "\t", "\n"}

RECURSIVE LStrip(_)
LStrip(s) == IF s # <<>> /\ Head(s) \in Whitespace THEN LStrip(Tail(s)) ELSE s

RECURSIVE RStrip(_)
RStrip(s) ==
    IF s # <<>> /\ s[Len(s)] \in Whitespace
    THEN RStrip(SubSeq(s, 1, Len(s) - 1))
    ELSE s

\* str.strip()
Strip(s) == RStrip(LStrip(s))

\* index of the first element of s at or after position from that is in set
\* chars, Len(s) + 1 when there is none
RECURSIVE FirstOf(_, _, _)
FirstOf(s, chars, from) ==
    IF from > Len(s) THEN Len(s) + 1
    ELSE IF s[from] \in chars THEN from
    ELSE FirstOf(s, chars, from + 1)

Letters == {LowerLetters[i] : i \in DOMAIN LowerLetters}
               \cup {UpperLetters[i] : i \in DOMAIN UpperLetters}

\* urlparse(url).netloc: after an optional scheme, the text between a leading
\* "//" and the next "/", "?" or "#"
Netloc(url) ==
    LET colon == FirstOf(url, {":"}, 1)
        hasScheme == /\ 1 < colon
                     /\ colon <= Len(url)
                     /\ \A i \in 1..(colon - 1) : url[i] \in Letters
        rest == IF hasScheme THEN SubSeq(url, colon + 1, Len(url)) ELSE url
    IN  IF Len(rest) >= 2 /\ rest[1] = "/" /\ rest[2] = "/"
        THEN SubSeq(rest, 3, FirstOf(rest, {"/", "?", "#"}, 3) - 1)
        ELSE <<>>

\* hasattr(entry, "published_parsed")
HasPublished(entry) == "published_parsed" \in DOMAIN entry

\* the entry's date could not be parsed: published_parsed is None, and slicing
\* it raises
PublishedRaises(entry) == HasPublished(entry) /\ entry.published_parsed = <<>>

\* published_dt
PublishedDt(entry, now) ==
    IF HasPublished(entry)
    THEN <<"published", entry.published_parsed[1]>>
    ELSE <<"now", now>>

\* whether the entry gets past the `continue` for an empty link or title
Usable(entry) == Strip(entry.link) # <<>> /\ Strip(entry.title) # <<>>

NewsRow(entry, now) ==
    [headline |-> Strip(entry.title),
     url |-> Strip(entry.link),
     timestamp |-> PublishedDt(entry, now),
     source |-> Netloc(Strip(entry.link))]

\* NewsItem.objects.filter(url=link).exists()
Exists(rows, link) == \E row \in rows : row.url = link

\* url = models.URLField(unique=True): NewsItem.objects.create raises for a url
\* some row already has
UrlTaken(rows, row) == \E r \in rows : r.url = row.url

\* the inner loop written with update_or_create: a later entry replaces the row
RECURSIVE ProcessEntriesUpsert(_, _, _)
ProcessEntriesUpsert(entries, rows, now) ==
    IF entries = <<>> THEN [rows |-> rows, job |-> "done"]
    ELSE LET entry == Head(entries)
         IN  IF PublishedRaises(entry) THEN [rows |-> rows, job |-> "aborted"]
             ELSE IF ~Usable(entry)
                  THEN ProcessEntriesUpsert(Tail(entries), rows, now)
                  ELSE ProcessEntriesUpsert(
                           Tail(entries),
                           {r \in rows : r.url # Strip(entry.link)}
                               \cup {NewsRow(entry, now)},
                           now)

\* the body of the inner loop for the entries in turn; an entry that raises
\* ends the run, the rows created so far staying
RECURSIVE ProcessEntries(_, _, _)
ProcessEntries(entries, rows, now) ==
    IF entries = <<>> THEN [rows |-> rows, job |-> "done"]
    ELSE LET entry == Head(entries)
         IN  IF PublishedRaises(entry) THEN [rows |-> rows, job |-> "aborted"]
             ELSE IF ~Usable(entry) \/ Exists(rows, Strip(entry.link))
                  THEN ProcessEntries(Tail(entries), rows, now)
                  ELSE IF UrlTaken(rows, NewsRow(entry, now))
                  THEN [rows |-> rows, job |-> "aborted"]
                  ELSE ProcessEntries(Tail(entries),
                                      rows \cup {NewsRow(entry, now)}, now)

\* the entries in the order handle() meets them: feed after feed
RECURSIVE AllEntries(_)
AllEntries(i) ==
    IF i > Len(RSS_SOURCES) THEN <<>> ELSE feeds[i] \o AllEntries(i + 1)

\* Command.handle
handle(now) == ProcessEntries(AllEntries(1), news, now)

(***************************************************************************)
(* Inputs                                                                  *)
(***************************************************************************)
MaxGainers == 102       \* longest gainers list the upstream API returns
MaxShortList == 2       \* longest list of hand-picked items
MaxRecords == 2         \* Integration rows
MaxFeedEntries == 2     \* entries in the three feeds together

ApiKeys == {<<>>, <<"k">>}

Item(sym) == [symbol |-> sym, change |-> 0]

ItemPool ==
    {Item(<<"A", "A", "P", "L">>), Item(<<"a", "a", "p", "l">>),
     Item(<<"A", "a", "p", "l">>), Item(<<"M", "S", "F", "T">>),
     [change |-> 0]}

ShortLists == UNION {[1..n -> ItemPool] : n \in 0..MaxShortList}

\* a list of n distinct gainers
Ramp(n) == [i \in 1..n |-> [symbol |-> <<"G">>, change |-> i]]

JsonList(items) == [kind |-> "json", body |-> [type |-> "list", items |-> items]]

JsonObject(keys) == [kind |-> "json", body |-> [type |-> "dict", items |-> keys]]

HttpErrors == {[kind |-> "ConnectionError"], [kind |-> "HTTPError"]}

GainersResponses ==
    HttpErrors \cup {JsonObject(<<"Error Message">>)}
        \cup {JsonList(l) : l \in ShortLists}
        \cup {JsonList(Ramp(n)) : n \in (TOP_N - 2)..MaxGainers}

QuoteResponses ==
    HttpErrors \cup {JsonObject(<<"Error Message">>)}
        \cup {JsonList(l) : l \in {<<>>, <<Item(VERIFY_SYMBOL)>>,
                                   <<Item(VERIFY_SYMBOL), Item(<<"M", "S", "F", "T">>)>>}}

\* one answer with a quote and one without
QuoteOrNone == {JsonList(<<Item(VERIFY_SYMBOL)>>), JsonList(<<>>)}

Symbols == {<<"a", "a", "p", "l">>, <<"A", "A", "P", "L">>, <<"A", "a", "p", "l">>,
            <<"m", "s", "f", "t">>, <<"a", "a", "p">>}

Queries == {<<>>, <<"a", "a">>, <<"A", "A">>, <<"A", "p">>, <<"m", "s">>, <<"x">>}

Users == {"alice", "bob"}

Pks == 0..MaxRecords

Form(provider, username, password) ==
    [provider |-> provider, username |-> username, password |-> password]

\* submissions the form refuses
InvalidData ==
    {Form("etoro", "joe", "pw1"), Form("webull", "", "pw1"), Form("webull", "joe", "")}

\* submissions for the registry: two providers
PostData == {Form(p, "joe", "pw1") : p \in {"webull", "robinhood"}} \cup InvalidData

\* submissions that change the provider, the account name, or both
RenameData ==
    {Form("webull", "joe", "pw1"), Form("webull", "jim", "pw1"),
     Form("robinhood", "jim", "pw1")}

\* submissions for the secrets: one account name, two passwords
SecretData ==
    {Form(p, "joe", pw) : p \in {"webull", "robinhood"}, pw \in {"pw1", "pw2"}}

NoData == [provider |-> "", username |-> "", password |-> ""]

Nows == {100, 101}

Link(pre, host, post) == pre \o <<"h", ":", "/", "/">> \o host \o <<"/", "1">> \o post

EntryPool ==
    {[link |-> Link(<<>>, <<"a">>, <<>>), title |-> <<"T">>, published_parsed |-> <<1>>],
     [link |-> Link(<<" ">>, <<"a">>, <<"\n">>), title |-> <<"U", " ">>,
      published_parsed |-> <<2>>],
     [link |-> Link(<<>>, <<"a">>, <<>>), title |-> <<" ">>],
     [link |-> Link(<<>>, <<"b">>, <<>>), title |-> <<"V">>],
     [link |-> Link(<<>>, <<"a">>, <<>>), title |-> <<"W">>, published_parsed |-> <<>>],
     [link |-> <<" ">>, title |-> <<"X">>, published_parsed |-> <<1>>]}

FeedIds == DOMAIN RSS_SOURCES

TotalEntries == Len(AllEntries(1))

(***************************************************************************)
(* The state machine                                                       *)
(***************************************************************************)
NoRequest == [view |-> "", arg |-> <<>>, http |-> [kind |-> ""]]

NoRendered == [view |-> "", status |-> "", url |-> <<>>, stocks |-> <<>>, query |-> <<>>]

Init ==
    /\ FMP_API_KEY \in ApiKeys
    /\ request = NoRequest
    /\ rendered = NoRendered
    /\ integrations = {}
    /\ keyring = <<>>
    /\ response = Response("", "", 0, "")
    /\ feeds = [i \in FeedIds |-> <<>>]
    /\ news = {}
    /\ job = "stale"

StockList ==
    \E http \in GainersResponses :
        /\ request' = [view |-> "stock_list", arg |-> <<>>, http |-> http]
        /\ rendered' = stock_list(http)
        /\ UNCHANGED <<FMP_API_KEY, integrationVars, newsVars>>

StockSearch ==
    \E q \in Queries, http \in GainersResponses :
        /\ request' = [view |-> "stock_search", arg |-> q, http |-> http]
        /\ rendered' = stock_search(q, http)
        /\ UNCHANGED <<FMP_API_KEY, integrationVars, newsVars>>

StockDetail ==
    \E symbol \in Symbols, http \in QuoteResponses :
        /\ request' = [view |-> "stock_detail", arg |-> symbol, http |-> http]
        /\ rendered' = stock_detail(symbol, http)
        /\ UNCHANGED <<FMP_API_KEY, integrationVars, newsVars>>

\* the request ends: its writes are in place and its answer is out
Commit(out) ==
    /\ integrations' = out.db
    /\ keyring' = out.kr
    /\ response' = out.resp
    /\ UNCHANGED <<FMP_API_KEY, stockVars, newsVars>>

\* @login_required for a request without a session: a redirect to the login page
AnonymousRequest ==
    \E view \in {"list", "edit", "verify"}, pk \in Pks :
        /\ view = "list" => pk = 0
        /\ Commit(Outcome(integrations, keyring, Response(view, "", pk, "login")))

IntegrationList ==
    \E user \in Users :
        /\ user \in Users
        /\ Commit(integration_list(user))

IntegrationEditGet ==
    \E user \in Users, pk \in Pks, getOk \in BOOLEAN :
        /\ pk = 0 => getOk
        /\ Commit(integration_edit(user, pk, "GET", NoData, getOk, TRUE))

\* a POST the form could read the store for (one it could not ends as the GET
\* does, whatever was submitted)
IntegrationEditPost(submissions, setOks) ==
    \E user \in Users, pk \in Pks, data \in submissions :
      \E setOk \in IF is_valid(data) THEN setOks ELSE {TRUE} :
        LET out == integration_edit(user, pk, "POST", data, TRUE, setOk)
        IN  /\ Cardinality(out.db) <= MaxRecords
            /\ Commit(out)

IntegrationVerify(answers) ==
    \E user \in Users, pk \in Pks \ {0}, http \in answers :
        /\ pk # 0
        /\ Commit(integration_verify(user, pk, http))

\* IntegrationForm(data, instance=inst).save(commit=False) on a valid form
SaveUncommitted ==
    \E user \in Users, pk \in Pks, data \in PostData :
        /\ pk = 0 \/ Found(pk, user)
        /\ is_valid(data)
        /\ Commit(IntegrationForm_save(
                      IF pk = 0 THEN NewIntegration(user) ELSE Lookup(pk, user),
                      data, FALSE, TRUE, Response("save", user, pk, "")))

\* the publisher of feed i adds an entry
Publish ==
    \E i \in FeedIds, entry \in EntryPool :
        /\ TotalEntries < MaxFeedEntries
        /\ feeds' = [feeds EXCEPT ![i] = Append(@, entry)]
        /\ job' = "stale"
        /\ UNCHANGED <<FMP_API_KEY, stockVars, integrationVars, news>>

\* the oldest entry of feed i drops out of it
Expire ==
    \E i \in FeedIds :
        /\ feeds[i] # <<>>
        /\ feeds' = [feeds EXCEPT ![i] = Tail(@)]
        /\ job' = "stale"
        /\ UNCHANGED <<FMP_API_KEY, stockVars, integrationVars, news>>

\* one run of `manage.py fetch_news`
FetchNews ==
    \E now \in Nows :
        /\ news' = handle(now).rows
        /\ job' = handle(now).job
        /\ UNCHANGED <<FMP_API_KEY, stockVars, integrationVars, feeds>>

NextStocks == StockList \/ StockSearch \/ StockDetail

NextIntegrations ==
    \/ AnonymousRequest
    \/ IntegrationList
    \/ IntegrationEditGet
    \/ IntegrationEditPost(PostData, BOOLEAN)
    \/ IntegrationVerify(QuoteOrNone)
    \/ SaveUncommitted

NextVerify ==
    \/ IntegrationEditPost(PostData, {TRUE})
    \/ IntegrationVerify(QuoteResponses)

NextKeyName ==
    \/ IntegrationEditPost(RenameData, {TRUE})
    \/ IntegrationVerify(QuoteOrNone)

NextSecrets ==
    \/ IntegrationEditGet
    \/ IntegrationEditPost(SecretData, {TRUE})

NextNews == Publish \/ Expire \/ FetchNews

Next == NextStocks \/ NextIntegrations \/ NextNews

Spec == Init /\ [][Next]_vars

SpecStocks == Init /\ [][NextStocks]_vars

\* a deployment with the API key set: there a verification can end either way
InitWithKey == Init /\ FMP_API_KEY # <<>>

SpecIntegrations == InitWithKey /\ [][NextIntegrations]_vars

SpecVerify == Init /\ [][NextVerify]_vars

SpecKeyName == InitWithKey /\ [][NextKeyName]_vars

SpecSecrets == Init /\ [][NextSecrets]_vars

SpecNews == Init /\ [][NextNews]_vars

(***************************************************************************)
(* Properties of the market-data views                                     *)
(***************************************************************************)
Lower(s) == [i \in DOMAIN s |-> LowerChar(s[i])]

\* two texts that differ at most in the case of their letters
SameIgnoringCase(s, t) == Len(s) = Len(t) /\ Lower(s) = Lower(t)

GotList == request.http.kind = "json" /\ request.http.body.type = "list"

\* C6: without an API key stock_list requests nothing, does not raise and
\* renders no stocks; with a key it renders the first min(100, n) entries of
\* the n-entry list the gainers endpoint returned, in their order, and renders
\* no stocks when the request failed.
C6_StockListTruncates ==
    rendered.view = "stock_list" =>
        /\ FMP_API_KEY = <<>> =>
               rendered.url = <<>> /\ rendered.status = "200" /\ rendered.stocks = <<>>
        /\ (FMP_API_KEY # <<>> /\ GotList) =>
               LET data == request.http.body.items
               IN  /\ rendered.status = "200"
                   /\ rendered.url = GainersUrl(FMP_API_KEY)
                   /\ Len(rendered.stocks) = Min(100, Len(data))
                   /\ \A i \in 1..Len(rendered.stocks) : rendered.stocks[i] = data[i]
        /\ (FMP_API_KEY # <<>> /\ request.http.kind # "json") =>
               rendered.status = "200" /\ rendered.stocks = <<>>

\* stock_list has cut a list of more than 100 gainers
C6_Witness ==
    /\ rendered.view = "stock_list"
    /\ FMP_API_KEY # <<>>
    /\ GotList
    /\ Len(request.http.body.items) > 100
    /\ Len(rendered.stocks) = 100

\* C7: stock_detail for a symbol asks the quote URL and ends (rendered stock
\* or Http404) as it does, on the same upstream answer, for every symbol that
\* differs from it only in letter case.
C7_DetailIgnoresCase ==
    rendered.view = "stock_detail" =>
        \A other \in Symbols :
            SameIgnoringCase(request.arg, other) =>
                /\ stock_detail(other, request.http).url = rendered.url
                /\ stock_detail(other, request.http) = rendered

\* stock_detail has rendered a quote for a symbol that has a differently cased
\* twin
C7_Witness ==
    /\ rendered.view = "stock_detail"
    /\ rendered.status = "200"
    /\ request.arg # Upper(request.arg)
    /\ \E other \in Symbols : other # request.arg /\ SameIgnoringCase(request.arg, other)

\* C8: for a non-empty query and a list from the gainers endpoint, stock_search
\* returns exactly the items whose symbol contains the query, both compared
\* ignoring letter case.
C8_SearchIgnoresCase ==
    (rendered.view = "stock_search" /\ request.arg # <<>> /\ FMP_API_KEY # <<>> /\ GotList) =>
        rendered.stocks =
            SelectSeq(request.http.body.items,
                      LAMBDA item : Contains(Lower(SymbolOf(item)), Lower(request.arg)))

(***************************************************************************)
(* Properties of the integration registry                                  *)
(***************************************************************************)
UniquePairs ==
    \A r1, r2 \in integrations :
        (r1.user = r2.user /\ r1.provider = r2.provider) => r1 = r2

\* the request handed Model.save an instance whose (user, provider) another
\* row held when the request came in
HandedDuplicate ==
    \E inst \in response'.saved :
        \E r \in integrations :
            r.pk # inst.pk /\ r.user = inst.user /\ r.provider = inst.provider

\* C2: no two Integration rows share (user, provider); a POST to
\* integration_edit that would give a second row an existing pair ends in a
\* uniqueness violation and leaves the table and the credential store as
\* they were.
C2_UniqueUserProvider ==
    [][/\ UniquePairs'
       /\ (response'.view = "edit" /\ HandedDuplicate) =>
              /\ response'.status = "IntegrityError"
              /\ integrations' = integrations
              /\ keyring' = keyring
       /\ response'.status = "IntegrityError" =>
              integrations' = integrations /\ keyring' = keyring]_vars

\* an edit of an existing row to the provider of the user's other row was refused
C2_Witness ==
    /\ response.view = "edit"
    /\ response.pk # 0
    /\ response.status = "IntegrityError"
    /\ Cardinality(OwnedBy(response.user)) = 2

\* C3: every persisted Integration row has key_name = provider + ":" + username.
C3_KeyNameDerived ==
    \A r \in integrations : r.key_name = r.provider \o ":" \o r.username

\* an edit has moved a verified row from webull:joe to robinhood:jim
C3_Witness ==
    /\ response.view = "edit"
    /\ response.status = "redirect"
    /\ response.kr_get = {<<"webull", "joe">>}
    /\ response.kr_set = {<<"robinhood", "jim">>}
    /\ \E r \in integrations : r.pk = response.pk /\ r.verified /\ r.username = "jim"

\* the quote request of integration_verify came back with a quote
QuoteArrived(http) ==
    /\ FMP_API_KEY # <<>>
    /\ http.kind = "json"
    /\ http.body.type = "list"
    /\ http.body.items # <<>>

VerifiedOwnRow ==
    /\ response.view = "verify"
    /\ \E r \in integrations : r.pk = response.pk /\ r.user = response.user

\* C4: integration_verify on a row of the requesting user ends in a redirect,
\* and the row then has verified = TRUE exactly when the quote call came back
\* with a quote; a missing API key, a request or HTTP error, undecodable or
\* empty data all leave verified = FALSE.
C4_VerifiedIffQuote ==
    VerifiedOwnRow =>
        /\ response.status = "redirect"
        /\ \A r \in integrations :
               r.pk = response.pk =>
                   \A http \in response.upstream : r.verified = QuoteArrived(http)
        /\ response.upstream # {}

\* a verification failed on an empty quote list, with the API key configured
C4_Witness ==
    /\ VerifiedOwnRow
    /\ FMP_API_KEY # <<>>
    /\ \E http \in response.upstream : http.kind = "json" /\ http.body.items = <<>>
    /\ \E r \in integrations : r.pk = response.pk /\ ~r.verified

\* C5: IntegrationForm.save(commit=True) calls set_password only once the row
\* is written; a refused row leaves the store alone; a store failure after
\* the row is written leaves the row in place; save(commit=False) writes
\* neither.
C5_StoreAfterDatabase ==
    [][/\ response'.kr_set # {} =>
              response'.saved # {} /\ response'.saved \subseteq integrations'
       /\ keyring' # keyring => response'.kr_set # {}
       /\ response'.status = "IntegrityError" =>
              response'.kr_set = {} /\ keyring' = keyring
       /\ (response'.status = "KeyringError" /\ response'.kr_set # {}) =>
              response'.saved \subseteq integrations' /\ keyring' = keyring
       /\ response'.status = "unsaved" =>
              integrations' = integrations /\ keyring' = keyring]_vars

\* a row was written and the store write after it failed
C5_Witness ==
    /\ response.status = "KeyringError"
    /\ response.kr_set # {}
    /\ response.saved # {}
    /\ response.saved \subseteq integrations
    /\ \A k \in response.kr_set : k \notin DOMAIN keyring

\* C9: a save by one user never changes the secret that another user's
\* Integration resolves to.
C9_SecretsIsolated ==
    [][\A r \in integrations :
           (r.user # response'.user /\ r \in integrations') =>
               get_password(r.provider, r.username)
                   = get_password(r.provider, r.username)']_vars

\* the request named a row of somebody else
ForeignRow ==
    /\ response'.view \in {"edit", "verify"}
    /\ response'.user \in Users
    /\ \E r \in integrations : r.pk = response'.pk /\ r.user # response'.user

\* C10: integration_edit and integration_verify by a logged-in user who does
\* not own row pk end in a 404, change no row and no secret and do not read
\* the store; integration_list returns exactly the requester's rows; a row
\* changes only in a request of its owner.
C10_OwnerOnly ==
    [][/\ ForeignRow =>
              /\ response'.status = "Http404"
              /\ integrations' = integrations
              /\ keyring' = keyring
              /\ response'.kr_get = {}
              /\ response'.initial = None
       /\ (response'.view = "list" /\ response'.user \in Users) =>
              response'.items = {r \in integrations : r.user = response'.user}
       /\ \A r \in integrations : r \notin integrations' => r.user = response'.user]_vars

\* a logged-in user got a 404 for a row of somebody else
C10_Witness ==
    /\ response.view = "verify"
    /\ response.status = "Http404"
    /\ response.user \in Users
    /\ \E r \in integrations : r.pk = response.pk /\ r.user # response.user /\ r.verified

(***************************************************************************)
(* Properties of the news ingestion                                        *)
(***************************************************************************)
OneRowPerUrl == \A r1, r2 \in news : r1.url = r2.url => r1 = r2

\* the entries whose stripped link is url
WithUrl(entries, url) == SelectSeq(entries, LAMBDA e : Strip(e.link) = url)

\* of those, the ones with a title as well: the ones the loop does not skip
UsableWithUrl(entries, url) == SelectSeq(WithUrl(entries, url), Usable)

\* row is what entry e gives when it is inserted
RowOf(row, e) == ~PublishedRaises(e) /\ \E now \in Nows : row = NewsRow(e, now)

NoRowTouched == news \subseteq news'

RerunInsertsNothing == (job # "stale" /\ feeds' = feeds) => news' = news

====
